---- MODULE Spec2Model ----
(***************************************************************************)
(* Extension-CustomSliders (src/src/index.ts, the collections version,     *)
(* lines 316-896): the settings tree kept under the host's                 *)
(* extensionSettings.customSliders, the handlers that change it, the two   *)
(* renderers and the host event callbacks.                                 *)
(*                                                                         *)
(* Objects have identity: every SliderCollection object lives in `heap`    *)
(* under an id, and an array of collections is a sequence of ids, because   *)
(* getSettings can put the default template's own array or own collection   *)
(* object into the live settings (lines 379 and 387).                       *)
(***************************************************************************)
EXTENDS Integers, Sequences, FiniteSets, TLC

\* ------------------------------------------------------------------ bounds
MaxColl == 3        \* collection objects 0..MaxColl can exist at one time
MaxLen == 3         \* longest collections array the model builds
MaxSliders == 1     \* most sliders the model puts in one collection
MaxDialogs == 1     \* popups that can be pending at once
MaxStored == 2      \* longest collections array of a stored settings tree
MaxRows == 2        \* longest slider array of an imported file

CollIds == 0..MaxColl
Undef == 0 - 1      \* what defaultSettings.collections[0] yields on an empty array

\* ------------------------------------------------------------------ numbers
\* slider.value is a JS number: an integer here, or NaN.
Num(n) == [nan |-> FALSE, v |-> n]
NaN == [nan |-> TRUE, v |-> 0]
isNaN(x) == x.nan
\* JS `a < b` and `a > b` on numbers: false as soon as one side is NaN.
Lt(a, b) == ~a.nan /\ ~b.nan /\ a.v < b.v
Gt(a, b) == ~a.nan /\ ~b.nan /\ a.v > b.v

\* A text typed into min/max is a sequence of characters.
DigitChars == <<"0", "1", "2", "3", "4", "5", "6", "7", "8", "9">>
IsDigit(c) == \E d \in 1..10 : DigitChars[d] = c
DigitVal(c) == (CHOOSE d \in 1..10 : DigitChars[d] = c) - 1

RECURSIVE ParseDigits(_, _, _)
ParseDigits(s, i, acc) ==
    IF i > Len(s) \/ ~IsDigit(s[i]) THEN acc
    ELSE ParseDigits(s, i + 1, acc * 10 + DigitVal(s[i]))

\* parseFloat on a text of digits, "-" and letters: an optional sign, then the
\* longest run of digits; NaN when there is no digit to read.
parseFloat(s) ==
    LET neg == Len(s) >= 1 /\ s[1] = "-"
        start == IF neg THEN 2 ELSE 1
    IN IF start > Len(s) \/ ~IsDigit(s[start]) THEN NaN
       ELSE Num((IF neg THEN 0 - 1 ELSE 1) * ParseDigits(s, start, 0))

\* ------------------------------------------------------------------ objects
Range(s) == {s[i] : i \in 1..Len(s)}

\* A heap cell no one refers to.
Free == [active |-> FALSE, name |-> "", sliders |-> <<>>, presets |-> <<>>]

\* defaultSettings.collections[0] as written in the source.
DefaultCollection ==
    [active |-> TRUE, name |-> "Default", sliders |-> <<>>, presets |-> <<>>]

\* createSlider's literal.
NewSlider ==
    [name |-> "New Slider", property |-> "", min |-> <<"0">>, max |-> <<"1">>,
     step |-> "0.01", value |-> Num(0), enabled |-> TRUE]

VARIABLES
    heap,                \* id -> SliderCollection object (Free when unused)
    defaultCollections,  \* defaultSettings.collections: the template's array
    namespace,           \* extensionSettings.customSliders: "absent", "nokey"
                         \* (object without a collections key), "tmpl" (its
                         \* collections IS the template's array), "own"
    collections,         \* the namespace's own collections array ("own")
    preset,              \* chatCompletionSettings.preset_settings_openai
    source,              \* chatCompletionSettings.chat_completion_source
    dialogs,             \* pending Popup.show.* promises, with what the
                         \* suspended handler captured
    ui,                  \* what the two renderers last put in the document
    dirty,               \* saveSettingsDebounced() called and not yet flushed
    data,                \* the request descriptor of the last request event
    last                 \* the last handler that ran, with the tree before it

vars == <<heap, defaultCollections, namespace, collections, preset, source,
          dialogs, ui, dirty, data, last>>

\* The settings tree as one value, for the operators below.
Mem == [ns |-> namespace, own |-> collections, tarr |-> defaultCollections,
        heap |-> heap]

\* settings.collections of the namespace object.
Collections(m) ==
    IF m.ns = "tmpl" THEN m.tarr ELSE IF m.ns = "own" THEN m.own ELSE <<>>

WithCollections(m, a) ==
    IF m.ns = "tmpl" THEN [m EXCEPT !.tarr = a] ELSE [m EXCEPT !.own = a]

\* settings.collections.find(c => c.active): the index of the first active
\* collection, 0 when there is none.
FindActive(m) ==
    LET a == Collections(m)
        hits == {i \in 1..Len(a) : m.heap[a[i]].active}
    IN IF hits = {} THEN 0 ELSE CHOOSE i \in hits : \A j \in hits : i <= j

ActiveId(m) == IF FindActive(m) = 0 THEN Undef ELSE Collections(m)[FindActive(m)]

\* Ids some live reference can still reach.
Reachable(m, held) ==
    Range(m.tarr) \cup (IF m.ns = "own" THEN Range(m.own) ELSE {}) \cup held

\* The unused ids, smallest first.
RECURSIVE Ascending(_)
Ascending(S) ==
    IF S = {} THEN <<>>
    ELSE LET x == CHOOSE y \in S : \A z \in S : y <= z
         IN <<x>> \o Ascending(S \ {x})

FreeIds(m, held) == Ascending(CollIds \ Reachable(m, held))

\* structuredClone(defaultSettings): a deep copy of the template as it is now.
structuredClone(m, held) ==
    LET free == FreeIds([m EXCEPT !.ns = "absent"], held)
        n == Len(m.tarr)
    IN [m EXCEPT !.ns = "own",
                 !.own = [i \in 1..n |-> free[i]],
                 !.heap = [c \in CollIds |->
                     IF \E i \in 1..n : free[i] = c
                     THEN m.heap[m.tarr[CHOOSE i \in 1..n : free[i] = c]]
                     ELSE m.heap[c]]]

\* The model can clone only while it has ids left.
CanClone(m, held) ==
    Len(FreeIds([m EXCEPT !.ns = "absent"], held)) >= Len(m.tarr)

\* getSettings(), lines 367-396.
getSettingsInstall(m, held) ==
    IF m.ns = "absent" THEN structuredClone(m, held) ELSE m

getSettingsBackfill(m) ==
    IF m.ns = "nokey" THEN [m EXCEPT !.ns = "tmpl"] ELSE m

getSettingsNonEmpty(m) ==
    IF Len(Collections(m)) = 0
    THEN WithCollections(m, Append(Collections(m),
             IF Len(m.tarr) = 0 THEN Undef ELSE m.tarr[1]))
    ELSE m

getSettingsActive(m) ==
    IF \E i \in 1..Len(Collections(m)) : m.heap[Collections(m)[i]].active
    THEN m
    ELSE [m EXCEPT !.heap[Collections(m)[1]].active = TRUE]

getSettings(m, held) ==
    getSettingsActive(getSettingsNonEmpty(getSettingsBackfill(
        getSettingsInstall(m, held))))

\* ------------------------------------------------------------------ rendering
NoList == [coll |-> Undef, n |-> 0]
NoUi == [list |-> NoList, options |-> <<>>, toggleEnabled |-> FALSE,
         live |-> <<>>, hint |-> TRUE]

\* renderHint(), lines 604-609, on a host whose main API is "openai": whether
\* the hint is displayed.
renderHint(src) == src # "custom"

\* The clamping of renderCompletionSliders, lines 772-778.
clampMin(s) ==
    IF Lt(s.value, parseFloat(s.min)) THEN parseFloat(s.min) ELSE s.value

clampMax(s, v) ==
    IF Gt(v, parseFloat(s.max)) THEN parseFloat(s.max) ELSE v

\* The filter of renderCompletionSliders, line 768.
Rendered(s) == s.enabled /\ s.property # "" /\ s.name # ""

\* The forEach of renderCompletionSliders, lines 767-820, from slider i on:
\* sl is the active collection's slider array, acc the controls appended so
\* far (document.getElementById finds exactly those).
RECURSIVE renderLoop(_, _, _, _, _)
renderLoop(sl, i, acc, c, src) ==
    IF i > Len(sl) THEN [sliders |-> sl, live |-> acc]
    ELSE IF ~Rendered(sl[i]) THEN renderLoop(sl, i + 1, acc, c, src)
    ELSE LET v == clampMax(sl[i], clampMin(sl[i]))
             sl2 == [sl EXCEPT ![i].value = v]
         IN IF \E k \in 1..Len(acc) : acc[k].property = sl[i].property
            THEN renderLoop(sl2, i + 1, acc, c, src)
            ELSE renderLoop(sl2, i + 1,
                     Append(acc, [coll |-> c, index |-> i,
                                  property |-> sl[i].property,
                                  min |-> sl[i].min, max |-> sl[i].max,
                                  shown |-> v, hidden |-> src # "custom"]),
                     c, src)

\* renderCompletionSliders(settings), lines 745-821; the host document has the
\* range block the container is inserted after.
renderCompletionSliders(m, u, src) ==
    IF FindActive(m) = 0 THEN [m |-> m, ui |-> [u EXCEPT !.live = <<>>]]
    ELSE LET c == ActiveId(m)
             r == renderLoop(m.heap[c].sliders, 1, <<>>, c, src)
         IN [m |-> [m EXCEPT !.heap[c].sliders = r.sliders],
             ui |-> [u EXCEPT !.live = r.live]]

\* renderSliderConfigs(settings), lines 611-743.
renderSliderConfigs(m, u, src, pre) ==
    IF FindActive(m) = 0 THEN [m |-> m, ui |-> [u EXCEPT !.list = NoList]]
    ELSE LET c == ActiveId(m)
             a == Collections(m)
             u1 == [u EXCEPT
                 !.list = [coll |-> c, n |-> Len(m.heap[c].sliders)],
                 !.options = [i \in 1..Len(a) |-> m.heap[a[i]].name],
                 !.toggleEnabled = pre \in Range(m.heap[c].presets)]
             r == renderCompletionSliders(m, u1, src)
         IN [m |-> r.m, ui |-> [r.ui EXCEPT !.hint = renderHint(src)]]

\* ------------------------------------------------------------------ state
\* Collection objects a suspended handler or a rendered control still holds.
HeldIds(dl, u) ==
    ({dl[i].coll : i \in 1..Len(dl)} \cup {u.list.coll}
        \cup {u.live[i].coll : i \in 1..Len(u.live)}) \ {Undef}

Held == HeldIds(dialogs, ui)

\* The tree as values, in array order: what the user sees and what is saved.
Tree(m) ==
    [ns |-> m.ns,
     colls |-> [i \in 1..Len(Collections(m)) |-> m.heap[Collections(m)[i]]],
     tmpl |-> [i \in 1..Len(m.tarr) |-> m.heap[m.tarr[i]]]]

\* The request descriptor: `given` is custom_include_body as the host passed
\* it, custom_include_body what the handler left there.
NoData == [chat_completion_source |-> "", given |-> <<>>,
           custom_include_body |-> <<>>]

\* Every live reference to a collection object, in a fixed order: the template's
\* array, the namespace's array, the popups, the document.
References(m, u, dl) ==
    m.tarr \o (IF m.ns = "own" THEN m.own ELSE <<>>)
        \o [i \in 1..Len(dl) |-> dl[i].coll] \o <<u.list.coll>>
        \o [i \in 1..Len(u.live) |-> u.live[i].coll]

RECURSIVE FirstOccurrences(_, _)
FirstOccurrences(s, seen) ==
    IF s = <<>> THEN <<>>
    ELSE IF Head(s) = Undef \/ Head(s) \in seen
         THEN FirstOccurrences(Tail(s), seen)
         ELSE <<Head(s)>> \o FirstOccurrences(Tail(s), seen \cup {Head(s)})

\* The tree, the document and the pending popups after a handler. An object's
\* id is only a name for it: the objects are renamed 0, 1, ... in the order of
\* References, and the unreachable ones dropped, so that equal trees are equal
\* states.
Set(m, u, dl) ==
    LET order == FirstOccurrences(References(m, u, dl), {})
        new(c) == IF c = Undef THEN Undef
                  ELSE (CHOOSE i \in 1..Len(order) : order[i] = c) - 1
    IN /\ heap' = [c \in CollIds |->
                      IF c < Len(order) THEN m.heap[order[c + 1]] ELSE Free]
       /\ defaultCollections' = [i \in 1..Len(m.tarr) |-> new(m.tarr[i])]
       /\ namespace' = m.ns
       /\ collections' = IF m.ns = "own"
                         THEN [i \in 1..Len(m.own) |-> new(m.own[i])]
                         ELSE <<>>
       /\ ui' = [u EXCEPT !.list.coll = new(@),
                          !.live = [i \in 1..Len(@) |->
                                       [@[i] EXCEPT !.coll = new(@)]]]
       /\ dialogs' = [i \in 1..Len(dl) |-> [dl[i] EXCEPT !.coll = new(@)]]

Did(op, arg) == last' = [op |-> op, arg |-> arg, pre |-> Tree(Mem)]

RemoveAt(s, i) == [j \in 1..(Len(s) - 1) |-> IF j < i THEN s[j] ELSE s[j + 1]]

\* ------------------------------------------------------------------ inputs
Names == {"", "A", "B"}      \* what the name prompt can return
PresetNames == {"P1", "P2"}              \* the host's presets ("" = none)
Sources == {"custom", "openai"}          \* completion sources of the host

ImportedX ==
    [name |-> "X", property |-> "p", min |-> <<"0">>, max |-> <<"1">>,
     step |-> "0.01", value |-> Num(5), enabled |-> TRUE]

ImportedY ==
    [name |-> "Y", property |-> "p", min |-> <<"0">>, max |-> <<"1">>,
     step |-> "0.01", value |-> Num(0), enabled |-> TRUE]

\* A file of MaxRows sliders that share their property.
TwoSliders ==
    [kind |-> "array",
     sliders |-> [i \in 1..MaxRows |-> IF i = 1 THEN ImportedX ELSE ImportedY]]

\* The files the user can pick for import.
Files ==
    {[kind |-> "malformed", sliders |-> <<>>],
     [kind |-> "nonarray", sliders |-> <<>>],
     [kind |-> "array", sliders |-> <<>>],
     [kind |-> "array", sliders |-> <<ImportedX>>]}

\* A handler that starts with getSettings() needs ids for the clone it may make.
Ready == namespace # "absent" \/ CanClone(Mem, Held)

\* ------------------------------------------------------------------ handlers
\* What a handler leaves: the tree, the document, and whether it called
\* saveSettingsDebounced().
Result(r, saved) == [m |-> r.m, ui |-> r.ui, saved |-> saved]
Untouched(m, u) == [m |-> m, ui |-> u, saved |-> FALSE]

\* The tree, the document and the persist request after a handler.
Leave(r, dl) == Set(r.m, r.ui, dl) /\ dirty' = (dirty \/ r.saved)

\* createSlider(), lines 585-602 (it does not call saveSettingsDebounced).
createSlider ==
    LET m0 == getSettings(Mem, Held)
        c == ActiveId(m0)
        m1 == [m0 EXCEPT !.heap[c].sliders = <<NewSlider>> \o @]
    IN /\ Ready
       /\ Len(m0.heap[c].sliders) < MaxSliders
       /\ Leave(Result(renderSliderConfigs(m1, ui, source, preset), FALSE), dialogs)
       /\ Did("createSlider", "")
       /\ UNCHANGED <<preset, source, data>>

NameTaken(m, name) ==
    \E i \in 1..Len(Collections(m)) : m.heap[Collections(m)[i]].name = name

\* pushActive without the forEach of lines 501-503.
pushActiveKeepingOthers(m, id, coll) ==
    WithCollections([m EXCEPT !.heap[id] = coll], Append(Collections(m), id))

\* The forEach and push of createCollection and processImport, lines 548-551
\* and 501-504.
pushActive(m, id, coll) ==
    LET a == Collections(m)
    IN WithCollections(
           [m EXCEPT !.heap = [c \in CollIds |->
               IF c = id THEN coll
               ELSE IF c \in Range(a) THEN [m.heap[c] EXCEPT !.active = FALSE]
               ELSE m.heap[c]]],
           Append(a, id))

\* The model can make a new collection object only while it has an id left and
\* the array is shorter than MaxLen.
CanPush(m, held, name) ==
    name = "" \/ NameTaken(m, name)
        \/ (FreeIds(m, held) # <<>> /\ Len(Collections(m)) < MaxLen)

\* addCollection that does not look for a collection of the same name.
addCollectionUnchecked(m, u, held, name, sliders) ==
    IF name = "" THEN Untouched(m, u)
    ELSE Result(renderSliderConfigs(
                    pushActive(m, FreeIds(m, held)[1],
                               [active |-> TRUE, name |-> name,
                                sliders |-> sliders, presets |-> <<>>]),
                    u, source, preset), TRUE)

\* createCollection() and processImport() after the name prompt, lines 537-555
\* and 484-507: `sliders` is the imported array (empty for a created one).
addCollection(m, u, held, name, sliders) ==
    IF name = "" \/ NameTaken(m, name) THEN Untouched(m, u)
    ELSE Result(renderSliderConfigs(
                    pushActive(m, FreeIds(m, held)[1],
                               [active |-> TRUE, name |-> name,
                                sliders |-> sliders, presets |-> <<>>]),
                    u, source, preset), TRUE)

\* Array.prototype.indexOf, 0-based, -1 when absent.
indexOf(a, x) ==
    LET hits == {i \in 1..Len(a) : a[i] = x}
    IN IF hits = {} THEN 0 - 1
       ELSE (CHOOSE i \in hits : \A j \in hits : i <= j) - 1

\* a.splice(idx, 1): a negative idx counts from the end of the array.
splice1(a, idx) ==
    LET at == IF idx < 0 THEN (IF Len(a) + idx < 0 THEN 0 ELSE Len(a) + idx)
              ELSE idx
    IN IF at >= Len(a) THEN a ELSE RemoveAt(a, at + 1)

\* Where collection object c is in settings.collections, from 1; 0 when it is
\* not there (indexOf of line 524 gives -1).
Position(m, c) == indexOf(Collections(m), c) + 1

\* The answer to the dialog of line 520 about collection object c.
Asked(m, confirm, c) ==
    [confirm |-> confirm, name |-> m.heap[c].name, coll |-> Position(m, c)]

\* deleteCollection() after the confirmation, lines 521-531: c is the
\* collection object that was active when the popup opened.
removeCollection(m, u, c, confirm) ==
    IF ~confirm THEN Untouched(m, u)
    ELSE LET a2 == splice1(Collections(m), indexOf(Collections(m), c))
             m1 == WithCollections(m, a2)
             m2 == IF Len(a2) > 0 THEN [m1 EXCEPT !.heap[a2[1]].active = TRUE]
                   ELSE m1
         IN Result(renderSliderConfigs(m2, u, source, preset), TRUE)

\* settings.collections.find(c => c.presets.includes(presetName)).
collectionWithPreset(m, p) ==
    LET a == Collections(m)
        hits == {i \in 1..Len(a) : p \in Range(m.heap[a[i]].presets)}
    IN IF hits = {} THEN Undef
       ELSE a[CHOOSE i \in hits : \A j \in hits : i <= j]

\* presets.splice(presets.indexOf(presetName), 1)
unbind(ps, p) == splice1(ps, indexOf(ps, p))

\* bindBranches that binds to the active collection without unbinding elsewhere.
bindWithoutUnbind(m, c, p) ==
    [m EXCEPT !.heap[c].presets = Append(@, p)]

\* bindBranches whose moving branch unbinds and forgets to bind.
bindWithoutPush(m, c, p) ==
    LET w == collectionWithPreset(m, p)
    IN IF w # Undef THEN [m EXCEPT !.heap[w].presets = unbind(@, p)]
       ELSE [m EXCEPT !.heap[c].presets = Append(@, p)]

\* The branches of bindToPreset, lines 569-579.
bindBranches(m, c, p) ==
    LET w == collectionWithPreset(m, p)
    IN IF w # Undef
       THEN LET mr == [m EXCEPT !.heap[w].presets = unbind(@, p)]
            IN IF w # c
               THEN [mr EXCEPT !.heap[c].presets = Append(@, p)]
               ELSE mr
       ELSE [m EXCEPT !.heap[c].presets = Append(@, p)]

\* bindToPreset(), lines 558-583.
bindToPreset ==
    LET m0 == getSettings(Mem, Held)
        m1 == bindBranches(m0, ActiveId(m0), preset)
    IN /\ Ready
       /\ IF preset = ""
          THEN Leave(Untouched(m0, ui), dialogs)
          ELSE Leave(Result(renderSliderConfigs(m1, ui, source, preset), TRUE),
                     dialogs)
       /\ Did("bindToPreset", preset)
       /\ UNCHANGED <<preset, source, data>>

\* collection.active = collection.name === selectedName, for each collection.
activateByName(m, name) ==
    [m EXCEPT !.heap = [c \in CollIds |->
        IF c \in Range(Collections(m))
        THEN [m.heap[c] EXCEPT !.active = (m.heap[c].name = name)]
        ELSE m.heap[c]]]

\* The change handler of the collections dropdown, lines 430-437: the user
\* picks one of the options the last render put there.
selectCollection(name) ==
    /\ name \in Range(ui.options)
    /\ Leave(Result(renderSliderConfigs(activateByName(Mem, name), ui, source,
                                        preset), TRUE), dialogs)
    /\ Did("selectCollection", name)
    /\ UNCHANGED <<preset, source, data>>

\* The switch of the OAI_PRESET_CHANGED_AFTER handler, lines 878-879.
switchTo(m, c, w) ==
    [m EXCEPT !.heap = [x \in CollIds |->
        IF x = c THEN [m.heap[x] EXCEPT !.active = FALSE]
        ELSE IF x = w THEN [m.heap[x] EXCEPT !.active = TRUE]
        ELSE m.heap[x]]]

\* The OAI_PRESET_CHANGED_AFTER handler, lines 869-884, with p selected.
onPresetChanged(m, u, p) ==
    LET c == ActiveId(m)
        w == collectionWithPreset(m, p)
    IN IF c # Undef /\ w # Undef /\ w # c
       THEN Result(renderSliderConfigs(switchTo(m, c, w), u, source, p), TRUE)
       ELSE Untouched(m, u)

\* The host selects preset p and emits OAI_PRESET_CHANGED_AFTER.
presetChanged(p) ==
    /\ namespace \in {"own", "tmpl"}
    /\ preset' = p
    /\ Leave(onPresetChanged(Mem, ui, p), dialogs)
    /\ Did("presetChanged", p)
    /\ UNCHANGED <<source, data>>

\* ---- handlers with a popup, the popup answered at once
\* createCollection(), lines 534-556.
createCollection(name) ==
    LET m0 == getSettings(Mem, Held)
    IN /\ Ready
       /\ CanPush(m0, Held, name)
       /\ Leave(addCollection(m0, ui, Held, name, <<>>), dialogs)
       /\ Did("createCollection", name)
       /\ UNCHANGED <<preset, source, data>>

\* deleteCollection(), lines 510-532.
deleteCollection(confirm) ==
    LET m0 == getSettings(Mem, Held)
    IN /\ Ready
       /\ IF Len(Collections(m0)) = 1
          THEN Leave(Untouched(m0, ui), dialogs)
          ELSE Leave(removeCollection(m0, ui, ActiveId(m0), confirm), dialogs)
       /\ Did("deleteCollection", Asked(m0, confirm, ActiveId(m0)))
       /\ UNCHANGED <<preset, source, data>>

\* The import file input's change handler and reader.onload, lines 456-479,
\* then processImport, lines 482-508.
importCollection(file, name) ==
    /\ namespace \in {"own", "tmpl"}
    /\ file.kind # "array" => name = ""
    /\ IF file.kind = "array"
       THEN /\ CanPush(Mem, Held, name)
            /\ Leave(addCollection(Mem, ui, Held, name, file.sliders), dialogs)
       ELSE Leave(Untouched(Mem, ui), dialogs)
    /\ Did("importCollection",
           [kind |-> file.kind, name |-> name, sliders |-> file.sliders])
    /\ UNCHANGED <<preset, source, data>>

\* ---- the same handlers, suspended at their await
Pending(kind, c, name, sliders) ==
    [kind |-> kind, coll |-> c, name |-> name, index |-> 0, sliders |-> sliders]

\* createCollection(), lines 534-536: up to the await of the name prompt.
createCollectionStart ==
    /\ Ready
    /\ Len(dialogs) < MaxDialogs
    /\ Leave(Untouched(getSettings(Mem, Held), ui),
             Append(dialogs, Pending("createCollection", Undef, "", <<>>)))
    /\ Did("createCollection.prompt", "")
    /\ UNCHANGED <<preset, source, data>>

\* createCollection(), lines 537-555: the prompt answered with `name`.
createCollectionResolve(k, name) ==
    /\ k \in 1..Len(dialogs)
    /\ dialogs[k].kind = "createCollection"
    /\ CanPush(Mem, Held, name)
    /\ Leave(addCollection(Mem, ui, Held, name, <<>>), RemoveAt(dialogs, k))
    /\ Did("createCollection", name)
    /\ UNCHANGED <<preset, source, data>>

\* deleteCollection(), lines 510-520: up to the await of the confirmation.
deleteCollectionStart ==
    LET m0 == getSettings(Mem, Held)
        c == ActiveId(m0)
    IN /\ Ready
       /\ IF Len(Collections(m0)) = 1
          THEN /\ Leave(Untouched(m0, ui), dialogs)
               /\ Did("deleteCollection.last", "")
          ELSE /\ Len(dialogs) < MaxDialogs
               /\ Leave(Untouched(m0, ui),
                        Append(dialogs, Pending("deleteCollection", c,
                                                m0.heap[c].name, <<>>)))
               /\ Did("deleteCollection.confirm", m0.heap[c].name)
       /\ UNCHANGED <<preset, source, data>>

\* deleteCollection(), lines 521-531: the confirmation answered.
deleteCollectionResolve(k, confirm) ==
    /\ k \in 1..Len(dialogs)
    /\ dialogs[k].kind = "deleteCollection"
    /\ Leave(removeCollection(Mem, ui, dialogs[k].coll, confirm),
             RemoveAt(dialogs, k))
    /\ Did("deleteCollection", Asked(Mem, confirm, dialogs[k].coll))
    /\ UNCHANGED <<preset, source, data>>

\* The import file input's change handler and reader.onload, lines 456-479,
\* then processImport up to its await, line 483.
importStart(file) ==
    /\ namespace \in {"own", "tmpl"}
    /\ IF file.kind = "array"
       THEN /\ Len(dialogs) < MaxDialogs
            /\ Leave(Untouched(Mem, ui),
                     Append(dialogs, Pending("import", Undef, "", file.sliders)))
       ELSE Leave(Untouched(Mem, ui), dialogs)
    /\ Did("import.file", file.kind)
    /\ UNCHANGED <<preset, source, data>>

\* processImport, lines 484-507: the prompt answered with `name`.
processImport(k, name) ==
    /\ k \in 1..Len(dialogs)
    /\ dialogs[k].kind = "import"
    /\ CanPush(Mem, Held, name)
    /\ Leave(addCollection(Mem, ui, Held, name, dialogs[k].sliders),
             RemoveAt(dialogs, k))
    /\ Did("importCollection",
           [kind |-> "array", name |-> name, sliders |-> dialogs[k].sliders])
    /\ UNCHANGED <<preset, source, data>>

\* ---- the delete button of a slider row
\* The delete handler after the confirmation, lines 689-699: i is the row
\* (1-based) the button was rendered in.
removeSlider(m, u, i, confirm) ==
    IF ~confirm \/ FindActive(m) = 0 THEN Untouched(m, u)
    ELSE Result(renderSliderConfigs(
                    [m EXCEPT !.heap[ActiveId(m)].sliders = splice1(@, i - 1)],
                    u, source, preset), TRUE)

\* Where collection object c stands in settings.collections, 0 when it is gone.

\* What a delete-slider handler did: the row, the collection the row was
\* rendered from (by position) and the slider the dialog named.
Deleted(confirm, c, i, slider) ==
    [confirm |-> confirm, coll |-> Position(Mem, c), index |-> i,
     slider |-> slider]

\* The delete handler, lines 687-700, the popup answered at once.
deleteSlider(i, confirm) ==
    /\ namespace \in {"own", "tmpl"}
    /\ i \in 1..ui.list.n
    /\ i <= Len(heap[ui.list.coll].sliders)
    /\ Leave(removeSlider(Mem, ui, i, confirm), dialogs)
    /\ Did("deleteSlider",
           Deleted(confirm, ui.list.coll, i, heap[ui.list.coll].sliders[i]))
    /\ UNCHANGED <<preset, source, data>>

\* The delete handler, lines 687-688: up to the await of the confirmation.
deleteSliderStart(i) ==
    /\ namespace \in {"own", "tmpl"}
    /\ i \in 1..ui.list.n
    /\ i <= Len(heap[ui.list.coll].sliders)
    /\ Len(dialogs) < MaxDialogs
    /\ Leave(Untouched(Mem, ui),
             Append(dialogs,
                    [kind |-> "deleteSlider", coll |-> ui.list.coll,
                     name |-> heap[ui.list.coll].sliders[i].name, index |-> i,
                     sliders |-> <<heap[ui.list.coll].sliders[i]>>]))
    /\ Did("deleteSlider.confirm", heap[ui.list.coll].sliders[i].name)
    /\ UNCHANGED <<preset, source, data>>

\* The delete handler, lines 689-699: the confirmation answered.
deleteSliderResolve(k, confirm) ==
    /\ k \in 1..Len(dialogs)
    /\ dialogs[k].kind = "deleteSlider"
    /\ Leave(removeSlider(Mem, ui, dialogs[k].index, confirm),
             RemoveAt(dialogs, k))
    /\ Did("deleteSlider",
           Deleted(confirm, dialogs[k].coll, dialogs[k].index,
                   dialogs[k].sliders[1]))
    /\ UNCHANGED <<preset, source, data>>

\* ------------------------------------------------------------------ Spec
\* init(), lines 890-896, on a host that has no customSliders settings yet.
Fresh ==
    [ns |-> "absent", own |-> <<>>, tarr |-> <<0>>,
     heap |-> [c \in CollIds |-> IF c = 0 THEN DefaultCollection ELSE Free]]

NoTree == [ns |-> "absent", colls |-> <<>>, tmpl |-> <<>>]

Init ==
    LET r == renderSliderConfigs(getSettings(Fresh, {}), NoUi, "custom", "")
    IN /\ heap = r.m.heap
       /\ defaultCollections = r.m.tarr
       /\ namespace = r.m.ns
       /\ collections = r.m.own
       /\ preset = ""
       /\ source = "custom"
       /\ dialogs = <<>>
       /\ ui = r.ui
       /\ dirty = TRUE
       /\ data = NoData
       /\ last = [op |-> "init", arg |-> "", pre |-> NoTree]

\* The handlers without a popup; the host's presets are `presets`.
Direct(presets) ==
    \/ bindToPreset
    \/ \E name \in Names \cup {"Default"} : selectCollection(name)
    \/ \E p \in presets \cup {""} : presetChanged(p)

\* Handlers interleave at their awaits: while a popup is pending, any other
\* handler may run. The host has the presets `presets`, the name prompts
\* return one of `names`.
Interleaved(presets, names) ==
    \/ Direct(presets)
    \/ createCollectionStart
    \/ deleteCollectionStart
    \/ \E file \in Files : importStart(file)
    \/ \E k \in 1..MaxDialogs, name \in names :
           createCollectionResolve(k, name)
    \/ \E k \in 1..MaxDialogs, confirm \in BOOLEAN :
           deleteCollectionResolve(k, confirm)
    \/ \E k \in 1..MaxDialogs, name \in names :
           processImport(k, name)

\* Two presets, one free collection name.
Next == Interleaved(PresetNames, {"", "A"})

Spec == Init /\ [][Next]_vars

\* One preset, two free collection names.
RaceNext == Interleaved({"P1"}, Names)

RaceSpec == Init /\ [][RaceNext]_vars

\* Handlers run one at a time: every popup is answered before anything else
\* runs.
SeqNext ==
    \/ Direct({"P1"})
    \/ \E name \in Names : createCollection(name)
    \/ \E confirm \in BOOLEAN : deleteCollection(confirm)
    \/ \E file \in Files, name \in Names : importCollection(file, name)
    \/ \E i \in 1..MaxSliders, confirm \in BOOLEAN : deleteSlider(i, confirm)

SeqSpec == Init /\ [][SeqNext]_vars

\* ---- the slider editor and the live controls
\* An input handler of the config list, lines 651-685: it writes one field of
\* the slider object it captured and re-renders the live controls.
fieldInput(i, field, v) ==
    LET c == ui.list.coll
        m1 == [Mem EXCEPT !.heap[c].sliders[i][field] = v]
    IN /\ namespace \in {"own", "tmpl"}
       /\ i \in 1..ui.list.n
       /\ i <= Len(heap[c].sliders)
       /\ heap[c].sliders[i][field] # v
       /\ Leave(Result(renderCompletionSliders(m1, ui, source), TRUE), dialogs)
       /\ Did(field, v)
       /\ UNCHANGED <<preset, source, data>>

nameInput(i, v) == fieldInput(i, "name", v)
propertyInput(i, v) == fieldInput(i, "property", v)
minInput(i, v) == fieldInput(i, "min", v)
maxInput(i, v) == fieldInput(i, "max", v)
enableCheckbox(i, v) == fieldInput(i, "enabled", v)

\* The values a range input with these min and max attributes can take
\* (sliderInput.min/max, lines 797-798): an attribute that is not a number
\* counts as 0 (min) or 100 (max), and when max < min the value is min.
RangeValues(min, max) ==
    LET lo == IF isNaN(parseFloat(min)) THEN 0 ELSE parseFloat(min).v
        hi == IF isNaN(parseFloat(max)) THEN 100 ELSE parseFloat(max).v
    IN IF hi < lo THEN {lo} ELSE lo..hi

\* The input handler of a live range control, lines 809-813.
sliderInput(k, v) ==
    /\ namespace \in {"own", "tmpl"}
    /\ k \in 1..Len(ui.live)
    /\ v \in RangeValues(ui.live[k].min, ui.live[k].max)
    /\ ui.live[k].shown # Num(v)
    /\ Leave(Result([m |-> [Mem EXCEPT !.heap[ui.live[k].coll]
                               .sliders[ui.live[k].index].value = Num(v)],
                     ui |-> [ui EXCEPT !.live[k].shown = Num(v)]], TRUE),
             dialogs)
    /\ Did("value", v)
    /\ UNCHANGED <<preset, source, data>>

\* The up and down buttons of row i, lines 702-714 and 716-728: the row's
\* index is applied to the collection that is active at the click.
swap(m, u, i, j) ==
    LET sl == m.heap[ActiveId(m)].sliders
    IN Result(renderSliderConfigs(
                  [m EXCEPT !.heap[ActiveId(m)].sliders =
                                [sl EXCEPT ![i] = sl[j], ![j] = sl[i]]],
                  u, source, preset), TRUE)

moveUp(i) ==
    /\ namespace \in {"own", "tmpl"}
    /\ i \in 1..ui.list.n
    /\ FindActive(Mem) # 0 => i <= Len(heap[ActiveId(Mem)].sliders)
    /\ IF i > 1 /\ FindActive(Mem) # 0
       THEN Leave(swap(Mem, ui, i - 1, i), dialogs)
       ELSE Leave(Untouched(Mem, ui), dialogs)
    /\ Did("moveUp", i)
    /\ UNCHANGED <<preset, source, data>>

moveDown(i) ==
    /\ namespace \in {"own", "tmpl"}
    /\ i \in 1..ui.list.n
    /\ IF FindActive(Mem) # 0 /\ i < Len(heap[ActiveId(Mem)].sliders)
       THEN Leave(swap(Mem, ui, i, i + 1), dialogs)
       ELSE Leave(Untouched(Mem, ui), dialogs)
    /\ Did("moveDown", i)
    /\ UNCHANGED <<preset, source, data>>

\* The timer of saveSettingsDebounced() fires: the host writes the settings.
flush ==
    /\ dirty
    /\ dirty' = FALSE
    /\ Did("flush", "")
    /\ UNCHANGED <<heap, defaultCollections, namespace, collections, preset,
                   source, dialogs, ui, data>>

\* ---- the request bridge
\* A body text is a sequence of lines; a line is "key: value" (kv), "- key:
\* value" (item), a comment, the flow mapping "{}", a plain scalar, or text no
\* YAML parser accepts (bad).
Line(t, k, v) == [t |-> t, k |-> k, v |-> v]

\* yaml.parse on these texts: comments are dropped; no line left is null; only
\* kv lines are a mapping (keys must be unique); only item lines are a sequence
\* of one-key mappings; "{}" alone is the empty mapping; a scalar alone is a
\* string; anything else throws.
yamlParse(text) ==
    LET rest == SelectSeq(text, LAMBDA l : l.t # "comment")
        all(t) == \A i \in 1..Len(rest) : rest[i].t = t
        pairs == [i \in 1..Len(rest) |-> [k |-> rest[i].k, v |-> rest[i].v]]
    IN IF rest = <<>> THEN [kind |-> "null", pairs |-> <<>>]
       ELSE IF all("kv")
       THEN IF \E i, j \in 1..Len(rest) : i < j /\ rest[i].k = rest[j].k
            THEN [kind |-> "error", pairs |-> <<>>]
            ELSE [kind |-> "map", pairs |-> pairs]
       ELSE IF all("item") THEN [kind |-> "seq", pairs |-> pairs]
       ELSE IF Len(rest) = 1 /\ rest[1].t = "flow"
       THEN [kind |-> "map", pairs |-> <<>>]
       ELSE IF Len(rest) = 1 /\ rest[1].t = "scalar"
       THEN [kind |-> "scalar", pairs |-> <<>>]
       ELSE [kind |-> "error", pairs |-> <<>>]

\* obj[k] = v on an object kept as its pairs in insertion order.
Put(obj, k, v) ==
    IF \E i \in 1..Len(obj) : obj[i].k = k
    THEN [i \in 1..Len(obj) |-> IF obj[i].k = k THEN [k |-> k, v |-> v]
                                 ELSE obj[i]]
    ELSE Append(obj, [k |-> k, v |-> v])

\* Object.assign(obj, src), src given as its pairs from pair i on.
RECURSIVE ObjectAssign(_, _, _)
ObjectAssign(obj, src, i) ==
    IF i > Len(src) THEN obj
    ELSE ObjectAssign(Put(obj, src[i].k, src[i].v), src, i + 1)

\* mergeYamlIntoObject(obj, yamlString), lines 823-846: each item of a parsed
\* sequence is a one-key mapping here, so assigning them in turn is assigning
\* their pairs in turn.
mergeYamlIntoObject(obj, yamlString) ==
    IF yamlString = <<>> THEN obj
    ELSE IF yamlParse(yamlString).kind \in {"map", "seq"}
         THEN ObjectAssign(obj, yamlParse(yamlString).pairs, 1)
         ELSE obj

\* The filter and reduce of the request handler, lines 860-865.
RECURSIVE reduceSliders(_, _, _)
reduceSliders(sl, i, acc) ==
    IF i > Len(sl) THEN acc
    ELSE IF sl[i].enabled /\ sl[i].property # "" /\ ~isNaN(sl[i].value)
         THEN reduceSliders(sl, i + 1, Put(acc, sl[i].property, sl[i].value.v))
         ELSE reduceSliders(sl, i + 1, acc)

\* yaml.stringify of an object of numbers: "{}" for the empty object, one
\* "key: value" line per pair otherwise.
yamlStringify(obj) ==
    IF obj = <<>> THEN <<Line("flow", "", 0)>>
    ELSE [i \in 1..Len(obj) |-> Line("kv", obj[i].k, obj[i].v)]

\* onSettingsReady that merges the sliders into an empty object.
onSettingsReadyWithoutBody(m, d) ==
    IF d.chat_completion_source # "custom" \/ FindActive(m) = 0 THEN d
    ELSE [d EXCEPT !.custom_include_body =
             yamlStringify(reduceSliders(m.heap[ActiveId(m)].sliders, 1, <<>>))]

\* The CHAT_COMPLETION_SETTINGS_READY handler, lines 850-868, on a descriptor.
onSettingsReady(m, d) ==
    IF d.chat_completion_source # "custom" \/ FindActive(m) = 0 THEN d
    ELSE [d EXCEPT !.custom_include_body =
             yamlStringify(ObjectAssign(
                 mergeYamlIntoObject(<<>>, d.custom_include_body),
                 reduceSliders(m.heap[ActiveId(m)].sliders, 1, <<>>), 1))]

\* The host prepares a request for completion source src with body text.
requestReady(src, text) ==
    /\ namespace \in {"own", "tmpl"}
    /\ data' = onSettingsReady(Mem, [chat_completion_source |-> src,
                                     given |-> text,
                                     custom_include_body |-> text])
    /\ Leave(Untouched(Mem, ui), dialogs)
    /\ Did("requestReady", src)
    /\ UNCHANGED <<preset, source>>

\* ---- requests while the user edits sliders and switches collections
SliderNames == {"", "N"}          \* what the user types as a slider's name
Properties == {"", "p"}           \* what the user types as a slider's property

\* The body texts the host passes: empty, a key the slider property collides
\* with, a commented mapping, a sequence of mappings, unparsable text.
Bodies ==
    {<<>>,
     <<Line("kv", "p", 9)>>,
     <<Line("comment", "", 0), Line("kv", "k", 7)>>,
     <<Line("item", "k", 7)>>,
     <<Line("bad", "", 0)>>}

ReqNext ==
    \/ createSlider
    \/ \E i \in 1..MaxSliders, v \in SliderNames : nameInput(i, v)
    \/ \E i \in 1..MaxSliders, v \in Properties : propertyInput(i, v)
    \/ \E i \in 1..MaxSliders, v \in BOOLEAN : enableCheckbox(i, v)
    \/ createCollection("A")
    \/ \E name \in {"A", "Default"} : selectCollection(name)
    \/ \E text \in Bodies : requestReady("custom", text)
    \/ \E src \in Sources \ {"custom"} :
           requestReady(src, <<Line("kv", "p", 9)>>)

ReqSpec == Init /\ [][ReqNext]_vars

\* ---- requests while the user edits one slider's range and value
Limits == {<<"0">>, <<"1">>, <<"2">>}   \* what the user types as min or max
Positions == 0..3                        \* where the user drags a live control

ClampNext ==
    \/ createSlider
    \/ \E i \in 1..MaxSliders, v \in SliderNames : nameInput(i, v)
    \/ \E i \in 1..MaxSliders, v \in Properties : propertyInput(i, v)
    \/ \E i \in 1..MaxSliders, v \in Limits : minInput(i, v)
    \/ \E i \in 1..MaxSliders, v \in Limits : maxInput(i, v)
    \/ \E i \in 1..MaxSliders, v \in BOOLEAN : enableCheckbox(i, v)
    \/ \E k \in 1..MaxSliders, v \in Positions : sliderInput(k, v)
    \/ requestReady("custom", <<>>)

ClampSpec == Init /\ [][ClampNext]_vars

\* ---- the extension on a host that has stored settings
\* The names of the collections of a stored tree, by position.
StoredNames == <<"A", "B", "C", "D">>

\* A stored settings.collections array of n collections with the given flags.
Stored(n, flags) ==
    [i \in 1..n |-> [active |-> flags[i], name |-> StoredNames[i],
                     sliders |-> <<>>, presets |-> <<>>]]

\* The host has loaded its settings and the module has just been evaluated
\* (lines 358-365): the namespace is absent, or an object without a collections
\* key, or an object with any array of up to MaxStored collections.
StoreInit ==
    \E ns \in {"absent", "nokey", "own"}, n \in 0..MaxStored :
        \E flags \in [1..n -> BOOLEAN] :
            /\ ns # "own" => n = 0
            /\ namespace = ns
            /\ defaultCollections = <<0>>
            /\ collections = [i \in 1..n |-> i]
            /\ heap = [c \in CollIds |->
                   IF c = 0 THEN DefaultCollection
                   ELSE IF c <= n THEN Stored(n, flags)[c] ELSE Free]
            /\ preset = "P1"
            /\ source = "custom"
            /\ dialogs = <<>>
            /\ ui = NoUi
            /\ dirty = FALSE
            /\ data = NoData
            /\ last = [op |-> "load", arg |-> "", pre |-> NoTree]

\* init() has run: renderSliderConfigs has filled the list.
Started == ui.list.coll # Undef

\* init(), lines 890-896.
init ==
    /\ ~Started
    /\ Ready
    /\ Leave(Result(renderSliderConfigs(getSettings(Mem, Held), ui, source,
                                        preset), TRUE), dialogs)
    /\ Did("init", "")
    /\ UNCHANGED <<preset, source, data>>

\* A call of the exported getSettings(), lines 367-396, on its own.
GetSettings ==
    /\ Ready
    /\ Leave(Untouched(getSettings(Mem, Held), ui), dialogs)
    /\ Did("getSettings", "")
    /\ UNCHANGED <<preset, source, data>>

\* The host drops the namespace (a settings reset): the test of line 372
\* succeeds again at the next getSettings().
hostReset ==
    /\ namespace # "absent"
    /\ Leave(Untouched([Mem EXCEPT !.ns = "absent", !.own = <<>>], ui), dialogs)
    /\ Did("hostReset", "")
    /\ UNCHANGED <<preset, source, data>>

\* The handlers that fetch the tree with getSettings() themselves, one at a
\* time, between calls of getSettings() and resets of the host.
StoreNext ==
    \/ init
    \/ GetSettings
    \/ hostReset
    \/ Started /\ createSlider
    \/ Started /\ bindToPreset
    \/ \E name \in {"", "A"} : Started /\ createCollection(name)
    \/ \E confirm \in BOOLEAN : Started /\ deleteCollection(confirm)

StoreSpec == StoreInit /\ [][StoreNext]_vars

\* ---- the user's actions between the writes of the debounced save
SaveNext ==
    \/ createSlider
    \/ \E v \in BOOLEAN : enableCheckbox(1, v)
    \/ \E i \in 1..MaxRows : moveUp(i)
    \/ \E i \in 1..MaxRows : moveDown(i)
    \/ \E i \in 1..MaxRows : deleteSlider(i, TRUE)
    \/ \E k \in 1..MaxRows : sliderInput(k, 0)
    \/ deleteCollection(TRUE)
    \/ \E name \in {"B", "Default"} : selectCollection(name)
    \/ importCollection(TwoSliders, "B")
    \/ bindToPreset
    \/ presetChanged("P1")
    \/ flush

SaveSpec == Init /\ [][SaveNext]_vars

\* ---- the host changes its completion source
\* The user picks another completion source in the host and the host does not
\* emit SETTINGS_UPDATED: no code of the extension runs.
sourceChanged(src) ==
    /\ src # source
    /\ source' = src
    /\ Did("sourceChanged", src)
    /\ UNCHANGED <<heap, defaultCollections, namespace, collections, preset,
                   dialogs, ui, dirty, data>>

\* The host emits SETTINGS_UPDATED with completion source src selected: the
\* handler of lines 885-887 calls renderHint() and nothing else.
settingsUpdated(src) ==
    /\ source' = src
    /\ Leave(Untouched(Mem, [ui EXCEPT !.hint = renderHint(src)]), dialogs)
    /\ Did("settingsUpdated", src)
    /\ UNCHANGED <<preset, data>>

HostNext ==
    \/ createSlider
    \/ \E v \in Properties : propertyInput(1, v)
    \/ \E v \in BOOLEAN : enableCheckbox(1, v)
    \/ sliderInput(1, 1)
    \/ \E name \in {"A", "Default"} : selectCollection(name)
    \/ createCollection("A")
    \/ \E src \in Sources : sourceChanged(src)
    \/ \E src \in Sources : settingsUpdated(src)

HostSpec == Init /\ [][HostNext]_vars

\* ---- a delete-slider confirmation pending while other handlers run
DelNext ==
    \/ createSlider
    \/ importCollection(TwoSliders, "B")
    \/ \E name \in {"B", "Default"} : selectCollection(name)
    \/ bindToPreset
    \/ \E p \in {"", "P1"} : presetChanged(p)
    \/ \E i \in 1..MaxRows : deleteSliderStart(i)
    \/ \E k \in 1..MaxDialogs, confirm \in BOOLEAN :
           deleteSliderResolve(k, confirm)

DelSpec == Init /\ [][DelNext]_vars

\* ---- requests while sliders of one collection share a property
DupNext ==
    \/ importCollection(TwoSliders, "B")
    \/ \E name \in {"B", "Default"} : selectCollection(name)
    \/ \E i \in 1..MaxRows, v \in BOOLEAN : enableCheckbox(i, v)
    \/ \E k \in 1..MaxRows, v \in Positions : sliderInput(k, v)
    \/ \E text \in {<<>>, <<Line("kv", "p", 9)>>} : requestReady("custom", text)
    \/ \E src \in Sources \ {"custom"} :
           requestReady(src, <<Line("kv", "p", 9)>>)

DupSpec == Init /\ [][DupNext]_vars

\* ------------------------------------------------------------------ claims
\* The collections of the tree as the user sees them, in array order.
Colls == Tree(Mem).colls

ActiveIdx(cs) == {i \in 1..Len(cs) : cs[i].active}

\* The index of the first active collection of a snapshot, 0 when none.
FirstActive(cs) ==
    IF ActiveIdx(cs) = {} THEN 0
    ELSE CHOOSE i \in ActiveIdx(cs) : \A j \in ActiveIdx(cs) : i <= j

\* How often preset p occurs in a presets array.
Occurrences(ps, p) == Cardinality({k \in 1..Len(ps) : ps[k] = p})

\* The index of the first collection of a snapshot bound to p, 0 when none.
FirstBound(cs, p) ==
    LET hits == {i \in 1..Len(cs) : Occurrences(cs[i].presets, p) > 0}
    IN IF hits = {} THEN 0 ELSE CHOOSE i \in hits : \A j \in hits : i <= j

\* C1: starting from one active collection, after every completed create,
\* delete, select, import and preset change exactly one collection is active.
C1_ExactlyOneActive ==
    dialogs = <<>> => Cardinality(ActiveIdx(Colls)) = 1

\* C2: getSettings() returns a non-empty list with exactly one active
\* collection for every stored tree, and when none was active exactly the
\* first is activated and no other flag changes.
C2_ExactlyOneActiveReturned ==
    last.op = "getSettings" =>
        /\ Len(Colls) > 0
        /\ Cardinality(ActiveIdx(Colls)) = 1
        /\ (last.pre.ns = "own" /\ last.pre.colls # <<>>
                /\ ActiveIdx(last.pre.colls) = {})
           => Colls = [last.pre.colls EXCEPT ![1].active = TRUE]

\* C3: whenever getSettings() runs while the namespace is absent, in any state
\* of the session, it installs exactly one collection, "Default", active, with
\* empty sliders and presets, sharing no object with the template.
C3_InstallsPristineDefault ==
    (last.op = "getSettings" /\ last.pre.ns = "absent") =>
        /\ namespace = "own"
        /\ Colls = <<DefaultCollection>>
        /\ Range(collections) \cap Range(defaultCollections) = {}

\* C4: every preset name is bound to at most one collection and occurs at most
\* once in its presets; binding a preset that another collection holds leaves
\* it absent there and exactly once in the active collection.
C4_PresetBoundOnce ==
    /\ \A p \in PresetNames :
           Cardinality({<<i, k>> \in (1..Len(Colls)) \X (1..2 * MaxLen) :
               k <= Len(Colls[i].presets) /\ Colls[i].presets[k] = p}) <= 1
    /\ last.op = "bindToPreset" /\ last.arg # "" =>
           \A i \in 1..Len(last.pre.colls) :
               (i # FirstActive(Colls)
                   /\ Occurrences(last.pre.colls[i].presets, last.arg) > 0)
               => /\ Occurrences(Colls[i].presets, last.arg) = 0
                  /\ Occurrences(Colls[FirstActive(Colls)].presets, last.arg) = 1

\* C4's case: the preset was bound to another collection and has been moved.
C4_Witness ==
    /\ last.op = "bindToPreset"
    /\ last.arg = "P1"
    /\ FirstBound(last.pre.colls, "P1") \notin {0, FirstActive(Colls)}
    /\ Occurrences(Colls[FirstActive(Colls)].presets, "P1") = 1

\* The preset was bound to the active collection when bind-to-preset started.
BoundToActiveBefore ==
    /\ FirstActive(Colls) <= Len(last.pre.colls)
    /\ Occurrences(last.pre.colls[FirstActive(Colls)].presets, last.arg) > 0

\* C5 as stated: after bind-to-preset with a selected preset, the preset is
\* bound to the active collection, whatever it was bound to before.
C5_AlwaysBound ==
    last.op = "bindToPreset" /\ last.arg # "" =>
        Occurrences(Colls[FirstActive(Colls)].presets, last.arg) > 0

\* C5 amended: after bind-to-preset with a selected preset, the preset is bound
\* to the active collection if it was unbound or bound to another collection
\* before, and bound to no collection if it was bound to the active collection
\* before (the button toggles).
C5_BoundUnlessToggledOff ==
    last.op = "bindToPreset" /\ last.arg # "" =>
        IF BoundToActiveBefore
        THEN FirstBound(Colls, last.arg) = 0
        ELSE FirstBound(Colls, last.arg) = FirstActive(Colls)

\* C5's case: the preset was bound to the active collection, and the click
\* has unbound it.
C5_Witness ==
    /\ last.op = "bindToPreset"
    /\ last.arg = "P2"
    /\ BoundToActiveBefore
    /\ Len(Colls) = 2
    /\ FirstBound(Colls, "P2") = 0

\* C6: a preset change to a preset bound to a collection that is not active
\* leaves that collection the only active one; a preset bound to no collection
\* or to an active one leaves the whole tree (flags, sliders, bindings, order)
\* as it was.
C6_PresetChangeSwitches ==
    last.op = "presetChanged" =>
        LET w == FirstBound(last.pre.colls, last.arg)
        IN IF w # 0 /\ ~last.pre.colls[w].active
           THEN ActiveIdx(Colls) = {w}
           ELSE Tree(Mem) = last.pre

\* The sliders of the active collection.
ActiveSliders ==
    IF FirstActive(Colls) = 0 THEN <<>> ELSE Colls[FirstActive(Colls)].sliders

\* The key/value data a body text parses back to, and its keys.
Parsed(text) == mergeYamlIntoObject(<<>>, text)
Has(obj, k) == \E i \in 1..Len(obj) : obj[i].k = k
Get(obj, k) == obj[CHOOSE i \in 1..Len(obj) : obj[i].k = k].v

\* A request event for completion source "custom" has just been handled.
CustomRequest ==
    last.op = "requestReady" /\ data.chat_completion_source = "custom"

\* The sliders C7 lets contribute: enabled, with a property, a name and a
\* numeric value.
Qualified(sl) ==
    sl.enabled /\ sl.property # "" /\ sl.name # "" /\ ~isNaN(sl.value)

\* C7: on a request event with source "custom", a pair is put into the body
\* only by a slider of the active collection that is enabled and has a
\* property, a name and a numeric value: every pair of the resulting body is
\* a pair of the given body or the {property: value} of such a slider.
C7_OnlyQualifiedContribute ==
    CustomRequest =>
        \A i \in 1..Len(Parsed(data.custom_include_body)) :
            LET pair == Parsed(data.custom_include_body)[i]
            IN \/ /\ Has(Parsed(data.given), pair.k)
                  /\ Get(Parsed(data.given), pair.k) = pair.v
               \/ \E j \in 1..Len(ActiveSliders) :
                      /\ Qualified(ActiveSliders[j])
                      /\ ActiveSliders[j].property = pair.k
                      /\ ActiveSliders[j].value.v = pair.v

\* C8: after a request event with source "custom" the body, parsed back, maps
\* every contributing slider's property to its value and every other key of
\* the given body to its given value, and holds only slider pairs when the
\* given text does not parse; with another source the body is as given.
C8_BodyMapsSliders ==
    last.op = "requestReady" =>
        IF data.chat_completion_source = "custom"
        THEN LET b == Parsed(data.given)
                 o == Parsed(data.custom_include_body)
                 contributes(k) == \E j \in 1..Len(ActiveSliders) :
                     Qualified(ActiveSliders[j]) /\ ActiveSliders[j].property = k
             IN /\ \A j \in 1..Len(ActiveSliders) :
                       Qualified(ActiveSliders[j]) =>
                           /\ Has(o, ActiveSliders[j].property)
                           /\ Get(o, ActiveSliders[j].property)
                                  = ActiveSliders[j].value.v
                /\ \A i \in 1..Len(b) :
                       ~contributes(b[i].k) =>
                           Has(o, b[i].k) /\ Get(o, b[i].k) = b[i].v
                /\ yamlParse(data.given).kind = "error" =>
                       \A i \in 1..Len(o) : contributes(o[i].k)
        ELSE data.custom_include_body = data.given

\* No slider of the active collection puts a pair into the body.
NothingContributed ==
    \A j \in 1..Len(ActiveSliders) :
        ~(ActiveSliders[j].enabled /\ ActiveSliders[j].property # ""
            /\ ~isNaN(ActiveSliders[j].value))

\* C9 as stated: on a request event with source "custom" to which no slider
\* contributes, the resulting body text is the given text, the empty text
\* included.
C9_TextUnchanged ==
    (CustomRequest /\ NothingContributed) =>
        data.custom_include_body = data.given

\* C9 amended: on a request event with source "custom" to which no slider
\* contributes, the resulting body text parses back to the key/value data the
\* given text parses to (none when it is empty, a scalar or unparsable); the
\* text is serialised anew, and the empty text comes out as "{}".
C9_DataUnchanged ==
    (CustomRequest /\ NothingContributed) =>
        /\ Parsed(data.custom_include_body) = Parsed(data.given)
        /\ data.given = <<>> => data.custom_include_body = <<Line("flow", "", 0)>>

\* C9's case: the only slider is disabled, the given body is a commented
\* mapping, and the resulting text differs from it but holds the same data.
C9_Witness ==
    /\ CustomRequest
    /\ Len(ActiveSliders) = 1
    /\ ~ActiveSliders[1].enabled
    /\ ActiveSliders[1].property = "p"
    /\ data.given = <<Line("comment", "", 0), Line("kv", "k", 7)>>
    /\ data.custom_include_body = <<Line("kv", "k", 7)>>

\* min and max are numbers and min does not exceed max.
WellFormed(min, max) ==
    /\ ~isNaN(parseFloat(min))
    /\ ~isNaN(parseFloat(max))
    /\ parseFloat(min).v <= parseFloat(max).v

Within(v, min, max) ==
    ~isNaN(v) /\ parseFloat(min).v <= v.v /\ v.v <= parseFloat(max).v

\* C10: a slider's value lies within [parseFloat(min), parseFloat(max)]
\* whenever a live control displays it and whenever a request event reads it,
\* after any edits of min, max, name, property, enabled and value. It is
\* stated here for the sliders whose min and max are numbers with min <= max.
C10_ValueWithinRange ==
    /\ \A k \in 1..Len(ui.live) :
           WellFormed(ui.live[k].min, ui.live[k].max) =>
               Within(ui.live[k].shown, ui.live[k].min, ui.live[k].max)
    /\ CustomRequest =>
           \A j \in 1..Len(ActiveSliders) :
               LET sl == ActiveSliders[j]
               IN (sl.enabled /\ sl.property # "" /\ ~isNaN(sl.value)
                       /\ WellFormed(sl.min, sl.max))
                  => Within(sl.value, sl.min, sl.max)

\* A collection of the tree before the last handler had this name.
NameWasTaken(name) ==
    \E i \in 1..Len(last.pre.colls) : last.pre.colls[i].name = name

\* The last handler was a user action that aborted.
Aborted ==
    \/ last.op = "createCollection"
           /\ (last.arg = "" \/ NameWasTaken(last.arg))
    \/ last.op = "importCollection"
           /\ (last.arg.kind # "array" \/ last.arg.name = ""
                  \/ NameWasTaken(last.arg.name))
    \/ last.op = "deleteCollection"
           /\ (~last.arg.confirm \/ Len(last.pre.colls) = 1)
    \/ last.op = "deleteSlider" /\ ~last.arg.confirm

\* C11: an aborted user action (import of malformed JSON or of a non-array
\* payload, create or import under an existing name, empty or cancelled name
\* prompt, declined delete-collection or delete-slider confirmation, delete of
\* the only collection) leaves the settings tree exactly as it was before.
C11_AbortedActionsChangeNothing ==
    Aborted => Tree(Mem) = last.pre

\* C11's case: an import under the name of an existing collection that holds a
\* slider has been refused.
C11_Witness ==
    /\ last.op = "importCollection"
    /\ last.arg.kind = "array"
    /\ last.arg.name = "A"
    /\ NameWasTaken("A")
    /\ \E i \in 1..Len(Colls) : Colls[i].name = "A" /\ Colls[i].sliders # <<>>

\* The last handler was an import that went through.
Imported ==
    /\ last.op = "importCollection"
    /\ last.arg.kind = "array"
    /\ last.arg.name # ""
    /\ ~NameWasTaken(last.arg.name)

\* The collections as they were before the last handler, all inactive.
Deactivated ==
    [i \in 1..Len(last.pre.colls) |-> [last.pre.colls[i] EXCEPT !.active = FALSE]]

AfterImport(sliders) ==
    Append(Deactivated, [active |-> TRUE, name |-> last.arg.name,
                         sliders |-> sliders, presets |-> <<>>])

\* What the render that ends the import leaves of the imported sliders: the
\* value of each displayed slider is clamped into [min, max].
Clamped(sl) ==
    [i \in 1..Len(sl) |->
        IF Rendered(sl[i])
        THEN [sl[i] EXCEPT !.value = clampMax(sl[i], clampMin(sl[i]))]
        ELSE sl[i]]

\* C12 as stated: a successful import appends exactly one collection at the
\* end, with the chosen name, active, the imported array as its sliders and no
\* presets; every earlier collection becomes inactive and is otherwise the same.
C12_ImportAppendsArray ==
    Imported => Colls = AfterImport(last.arg.sliders)

\* C12, amended: the same, except that the appended collection's sliders are
\* the imported array after the render's clamping of each displayed slider's
\* value into [min, max].
C12_ImportAppendsClampedArray ==
    Imported => Colls = AfterImport(Clamped(last.arg.sliders))

\* C12's case: an array with a slider has been imported next to two earlier
\* collections.
C12_Witness ==
    /\ Imported
    /\ last.arg.sliders # <<>>
    /\ Len(last.pre.colls) = 2
    /\ Len(Colls) = 3

\* The handlers of the user's actions on the tree.
UserActions ==
    {"createSlider", "name", "property", "min", "max", "enabled", "moveUp",
     "moveDown", "deleteSlider", "value", "createCollection",
     "deleteCollection", "selectCollection", "importCollection",
     "bindToPreset", "presetChanged"}

\* C13: every user action that changes the settings tree has requested a
\* debounced persist by the time its handler finishes: after such an action a
\* persist request is pending.
C13_ChangesRequestPersist ==
    (last.op \in UserActions /\ Tree(Mem) # last.pre) => dirty

\* C14: in every state a live control is visible only if the host's current
\* completion source is "custom", also after the host has changed its source,
\* with or without a settings-updated event, and nothing was edited since.
C14_VisibleOnlyForCustom ==
    \A k \in 1..Len(ui.live) : ~ui.live[k].hidden => source = "custom"

\* The tree before the last handler without slider i of collection c.
WithoutSlider(c, i) ==
    [last.pre.colls EXCEPT ![c].sliders = RemoveAt(@, i)]

\* C15: an accepted delete-slider confirmation removes the slider its dialog
\* named, from the collection that was displayed, and no other slider of any
\* collection, whatever became of the active collection or of its slider
\* sequence while the dialog was pending.
C15_DeletesNamedSlider ==
    (last.op = "deleteSlider" /\ last.arg.confirm) =>
        /\ last.arg.coll # 0
        /\ \E i \in 1..Len(last.pre.colls[last.arg.coll].sliders) :
               /\ last.pre.colls[last.arg.coll].sliders[i] = last.arg.slider
               /\ Colls = WithoutSlider(last.arg.coll, i)

\* C16: when a delete-collection confirmation was pending while other
\* handlers ran (a selection, a preset-change switch, a create or import,
\* another confirmed delete) and it has been accepted with nothing left
\* pending, there is at least one collection, exactly one collection is
\* active, and the collection removed is the one the dialog named.
C16_PendingDeleteRemovesNamed ==
    (last.op = "deleteCollection" /\ last.arg.confirm
         /\ Len(last.pre.colls) > 1 /\ dialogs = <<>>) =>
        /\ Len(Colls) >= 1
        /\ Cardinality(ActiveIdx(Colls)) = 1
        /\ last.arg.coll # 0
        /\ [i \in 1..Len(Colls) |-> Colls[i].name]
               = RemoveAt([i \in 1..Len(last.pre.colls) |->
                              last.pre.colls[i].name], last.arg.coll)

\* The sliders of the active collection put property p into the body: the
\* filter and the test of the reduce, lines 860-862.
Injected(p) ==
    \E j \in 1..Len(ActiveSliders) :
        /\ ActiveSliders[j].enabled
        /\ ActiveSliders[j].property = p
        /\ ~isNaN(ActiveSliders[j].value)

\* The slider that live control k moves.
Moved(k) == heap[ui.live[k].coll].sliders[ui.live[k].index]

\* C17: after a request event with source "custom", every property the
\* sliders injected has a rendered live control, and the body's value for it is
\* the value of the slider that control moves, also when several enabled
\* sliders share the property and only the first of them was rendered.
C17_InjectedIsRendered ==
    CustomRequest =>
        \A p \in Properties \ {""} :
            Injected(p) =>
                \E k \in 1..Len(ui.live) :
                    /\ ui.live[k].property = p
                    /\ Has(Parsed(data.custom_include_body), p)
                    /\ Get(Parsed(data.custom_include_body), p) = Moved(k).value.v

====
